---- MODULE Spec2Model ----
(***************************************************************************)
(* Model of the voice-channel meeting recorder (src/bot.py, src/utils.py). *)
(*                                                                         *)
(* The program is one asyncio event loop.  A step of the model is the code *)
(* one coroutine runs between two suspension points (await); the recording *)
(* threads of the voice client hand their completion callback to the loop  *)
(* at a time of their own.                                                 *)
(***************************************************************************)
EXTENDS Integers, Sequences, FiniteSets, TLC

\* ---- program constant ---------------------------------------------------
CHUNK_SEC == 300

\* ---- bounds of the model ------------------------------------------------
MaxHandlers   == 2   \* command handlers suspended at an await at the same time
MaxTasks      == 2   \* recorder tasks created in one run
MaxConns      == 2   \* voice clients created in one run
TicksPerChunk == 2   \* clock steps per rotation period
Horizon       == 1   \* rotation periods the clock covers
CalmHorizon   == 2   \* the same, when nothing fails and nobody leaves
MaxList       == 3   \* longest list of files handed to combine_audio

None == 0

VARIABLES
    session,   \* the Session object: active, vc, chunks, task
    vcs,       \* every discord.VoiceClient created so far, by identity
    tasks,     \* every recorder task created so far, by identity
    pending,   \* segments whose recording stopped and whose callback has not run
    hs,        \* the command handlers suspended at an await
    now,       \* wall clock, seconds
    sent,      \* what the step just taken sent to the requester (or raised)
    run,       \* the pipeline run of the step just taken
    wrote      \* the chunk files (recordings/*.wav) the step just taken wrote

vars == <<session, vcs, tasks, pending, hs, now, sent, run, wrote>>

Step      == CHUNK_SEC \div TicksPerChunk
EndOfTime == Horizon * CHUNK_SEC
CalmEnd   == CalmHorizon * CHUNK_SEC

\* ---- Session ------------------------------------------------------------
\* Session.__init__: the state a (re)initialised session has.
SessionInit == [active |-> FALSE, vc |-> None, chunks |-> <<>>, task |-> None]

NoSeg == [fname |-> -1, by |-> None, period |-> 0]
NoRun == [kind |-> "none", task |-> None, input |-> <<>>, flushed |-> <<>>, missing |-> {}, failing |-> {},
          stages |-> <<>>, failed |-> "none", delivered |-> FALSE, t0 |-> 0, at |-> 0]

Msg(m) == <<m>>

\* A step that sends nothing, and a step that sends m; neither runs the pipeline.
Quiet  == sent' = Msg("none") /\ run' = NoRun /\ wrote' = {}
Say(m) == sent' = Msg(m) /\ run' = NoRun /\ wrote' = {}

\* A handler suspended at an await: the command, the await, and the locals it
\* resumes with.  flushed is no local of the code: it is session.chunks as it
\* was when a stop came back from awaiting the recorder, kept to be compared
\* with what the stop hands to the pipeline.
Handler(cmd, pc, task, vc, at) ==
    [cmd |-> cmd, pc |-> pc, task |-> task, vc |-> vc, at |-> at, flushed |-> <<>>]

\* ---- the voice client (py-cord), at the interface bot.py uses ------------
\* vc.is_connected()
is_connected(v, c) == v[c].st = "connected"

\* bot.voice_clients: the clients registered for the guild.
voice_clients(v) == {c \in DOMAIN v : v[c].st \in {"connecting", "connected", "closing"}}

\* vc.start_recording(sink, on_chunk_end, inter, fname) raises when the client is
\* not connected or is already recording.  A segment is stamped with the file
\* name of line 50, the recorder that started it and the recording period it
\* began in (the number of starts accepted so far).
CanStartRecording(v, c) == is_connected(v, c) /\ ~v[c].recording

start_recording(v, c, r) ==
    [v EXCEPT ![c].recording = TRUE,
              ![c].seg = [fname |-> now, by |-> r, period |-> Len(tasks)]]

\* The chunk a stopped segment hands to on_chunk_end: the file name taken when the
\* segment started, and the time the recording stopped.
ChunkOf(seg) == [fname |-> seg.fname, closed |-> now, by |-> seg.by, period |-> seg.period]

\* vc.stop_recording(): the flag drops at once; the recording thread notices and
\* schedules the callback on the loop later.
stop_recording(v, c) == [v EXCEPT ![c].recording = FALSE, ![c].seg = NoSeg]

\* The callbacks stop_recording leaves to come: the open segment's, when its
\* recording thread is still there (the client was not closed under it).
Stopped(v, c) == IF v[c].seg = NoSeg THEN {} ELSE {ChunkOf(v[c].seg)}

\* ---- utils.py: the pipeline stages ----------------------------------------
\* The stages a pipeline runs, in order, given the set of stages that fail: a
\* failing stage raises, so the stages after it do not run.
\* A pipeline that goes on after a failed stage.
RunStagesAll(stages, failing) == stages

RECURSIVE RunStages(_, _)
RunStages(stages, failing) ==
    IF stages = <<>> THEN <<>>
    ELSE IF Head(stages) \in failing THEN <<Head(stages)>>
    ELSE <<Head(stages)>> \o RunStages(Tail(stages), failing)

Last(s) == s[Len(s)]

FailedStage(stages, failing) ==
    LET ran == RunStages(stages, failing)
    IN  IF ran # <<>> /\ Last(ran) \in failing THEN Last(ran) ELSE "none"

StopStages    == <<"merge", "transcribe", "summarize", "render">>
ProcessStages == <<"transcribe", "summarize", "render">>
StageNames    == {"merge", "transcribe", "summarize", "render"}

\* The outcomes the stages are given: none fails, one fails, all fail.
FailSets == {{}} \cup {{st} : st \in StageNames} \cup {StageNames}

\* ---- utils.py: combine_audio and transcribe, on a disk -----------------------
\* The disk is a function from the paths that exist to their contents.  A
\* recorded file holds its own audio; the temporary names are fresh ones.
Recorded == {"a.wav", "b.wav", "c.wav"}
TmpList  == "tmp.txt"
TmpWav   == "tmp.wav"
NoPath   == "none"

Disk0 == [p \in Recorded |-> <<p>>]

Unlink(disk, p) == [q \in DOMAIN disk \ {p} |-> disk[q]]

\* ffmpeg -f concat -c copy: the audio of the listed files, in the order of the
\* list.
RECURSIVE Concat(_, _)
Concat(files, disk) ==
    IF files = <<>> THEN <<>>
    ELSE disk[Head(files)] \o Concat(Tail(files), disk)

\* A merge that runs the concatenation whatever the length of the list.
combine_audio_concat(wav_files, disk, ffmpegOk) ==
    LET d1 == (TmpList :> wav_files) @@ disk
    IN  IF ffmpegOk
        THEN [raised |-> FALSE, ret |-> TmpWav, cmds |-> <<"ffmpeg">>,
              disk |-> Unlink((TmpWav :> Concat(d1[TmpList], d1)) @@ d1, TmpList)]
        ELSE [raised |-> TRUE, ret |-> NoPath, cmds |-> <<"ffmpeg">>, disk |-> d1]

\* combine_audio(wav_files), lines 10-22; ffmpegOk: the exit status of ffmpeg.
\* When ffmpeg fails, check=True raises before the list file is unlinked.
combine_audio(wav_files, disk, ffmpegOk) ==
    IF Len(wav_files) = 1
    THEN [raised |-> FALSE, ret |-> wav_files[1], cmds |-> <<>>, disk |-> disk]
    ELSE LET d1 == (TmpList :> wav_files) @@ disk
         IN  IF ffmpegOk
             THEN [raised |-> FALSE, ret |-> TmpWav, cmds |-> <<"ffmpeg">>,
                   disk |-> Unlink((TmpWav :> Concat(d1[TmpList], d1)) @@ d1, TmpList)]
             ELSE [raised |-> TRUE, ret |-> NoPath, cmds |-> <<"ffmpeg">>, disk |-> d1]

\* What the transcription service returns for an audio.
Text(audio) == <<"text of">> \o audio

\* A transcription that tries the service once more after the retry failed.
transcribe_again(wav_path, disk, apiOk, ffmpegOk, retryOk) ==
    IF apiOk
    THEN [raised |-> FALSE, ret |-> Text(disk[wav_path]), cmds |-> <<"create">>]
    ELSE IF ~ffmpegOk
    THEN [raised |-> TRUE, ret |-> <<>>, cmds |-> <<"create", "ffmpeg", "unlink">>]
    ELSE IF retryOk
    THEN [raised |-> FALSE, ret |-> Text(disk[wav_path]),
          cmds |-> <<"create", "ffmpeg", "create", "unlink">>]
    ELSE [raised |-> FALSE, ret |-> Text(disk[wav_path]),
          cmds |-> <<"create", "ffmpeg", "create", "create", "unlink">>]

\* transcribe(wav_path), lines 24-51.  apiOk, retryOk: the service accepts the
\* original file, the re-encoded one; ffmpegOk: the re-encoding succeeds.  cmds:
\* the calls made, in order ("create" is client.audio.transcriptions.create).
\* The re-encoded file is unlinked on every path that made it (finally), so the
\* disk is as before when the function returns or raises.
transcribe(wav_path, disk, apiOk, ffmpegOk, retryOk) ==
    IF apiOk
    THEN [raised |-> FALSE, ret |-> Text(disk[wav_path]), cmds |-> <<"create">>]
    ELSE IF ~ffmpegOk
    THEN [raised |-> TRUE, ret |-> <<>>, cmds |-> <<"create", "ffmpeg", "unlink">>]
    ELSE IF retryOk
    THEN [raised |-> FALSE, ret |-> Text(disk[wav_path]),
          cmds |-> <<"create", "ffmpeg", "create", "unlink">>]
    ELSE [raised |-> TRUE, ret |-> <<>>,
          cmds |-> <<"create", "ffmpeg", "create", "unlink">>]

\* ---- Init -----------------------------------------------------------------
Init ==
    /\ session = SessionInit
    /\ vcs = <<>>
    /\ tasks = <<>>
    /\ pending = {}
    /\ hs = {}
    /\ now = 0
    /\ sent = Msg("none")
    /\ run = NoRun
    /\ wrote = {}

\* Room for one more suspended handler.
Room == Cardinality(hs) < MaxHandlers

\* asyncio.create_task(recorder(inter)): a new task, ready to run.  runs counts
\* the pipeline runs of the stop that awaited the task (lines 90-94).
NewTask == [pc |-> "ready", wake |-> 0, born |-> now, runs |-> 0]

\* record(start), lines 78-80 : the start is accepted.
Accept(s, c) == [s EXCEPT !.vc = c, !.active = TRUE, !.task = Len(tasks) + 1]

\* ---- safe_connect ----------------------------------------------------------
\* A connect that looks for no live client and is refused none.
connect_anew(s, v, inVoice) ==
    IF ~inVoice THEN [res |-> "RuntimeError", vc |-> None]
    ELSE [res |-> "connect", vc |-> Len(v) + 1]

\* What safe_connect does up to its await: "vc" (a live client is returned, c),
\* "RuntimeError" (requester is in no voice channel), "ClientException"
\* (channel.connect() refuses: a client of the guild is already registered),
\* "connect" (a new client is created and the handshake awaited).
safe_connect(s, v, inVoice) ==
    IF s.vc # None /\ is_connected(v, s.vc) THEN [res |-> "vc", vc |-> s.vc]
    ELSE IF \E c \in voice_clients(v) : is_connected(v, c)
         THEN [res |-> "vc", vc |-> CHOOSE c \in voice_clients(v) : is_connected(v, c)]
    ELSE IF ~inVoice THEN [res |-> "RuntimeError", vc |-> None]
    ELSE IF voice_clients(v) # {} THEN [res |-> "ClientException", vc |-> None]
    ELSE [res |-> "connect", vc |-> Len(v) + 1]

NewClient == [st |-> "connecting", recording |-> FALSE, seg |-> NoSeg]

\* ---- /record start ---------------------------------------------------------
RecordStart(inVoice) ==
    IF session.active
    THEN /\ Say("AlreadyRecording")
         /\ UNCHANGED <<session, vcs, tasks, pending, hs, now>>
    ELSE LET sc == safe_connect(session, vcs, inVoice) IN
         CASE sc.res = "vc" ->
                /\ Len(tasks) < MaxTasks
                /\ session' = Accept(session, sc.vc)
                /\ tasks' = Append(tasks, NewTask)
                /\ Say("Recording")
                /\ UNCHANGED <<vcs, pending, hs, now>>
           [] sc.res = "connect" ->
                /\ Len(vcs) < MaxConns
                /\ Room
                /\ hs' = hs \cup {Handler("start", "connect", None, sc.vc, 0)}
                /\ vcs' = Append(vcs, NewClient)
                /\ Quiet
                /\ UNCHANGED <<session, tasks, pending, now>>
           [] OTHER ->
                /\ Say(sc.res)
                /\ UNCHANGED <<session, vcs, tasks, pending, hs, now>>

\* safe_connect line 37 resumes: the handshake ended (ok) or timed out.
ConnectDone(h, ok) ==
    /\ h \in hs
    /\ h.cmd = "start" /\ h.pc = "connect"
    /\ hs' = hs \ {h}
    /\ IF ok
       THEN /\ Len(tasks) < MaxTasks
            /\ vcs' = [vcs EXCEPT ![h.vc].st = "connected"]
            /\ session' = Accept(session, h.vc)
            /\ tasks' = Append(tasks, NewTask)
            /\ Say("Recording")
       ELSE /\ vcs' = [vcs EXCEPT ![h.vc].st = "closed"]
            /\ Say("ConnectFailed")
            /\ UNCHANGED <<session, tasks>>
    /\ UNCHANGED <<pending, now>>

\* ---- the recorder task -------------------------------------------------------
Runnable(r) ==
    \/ tasks[r].pc = "ready"
    \/ tasks[r].pc = "sleep" /\ tasks[r].wake <= now

\* The task runs from where it is to its next sleep, or to its end.
recorder(r) ==
    /\ r \in DOMAIN tasks
    /\ Runnable(r)
    /\ LET c     == session.vc
           woke  == tasks[r].pc = "sleep"
           \* lines 54-55, after the sleep
           stopA == woke /\ c # None /\ vcs[c].recording
           v1    == IF stopA THEN stop_recording(vcs, c) ELSE vcs
           p1    == IF stopA THEN pending \cup Stopped(vcs, c) ELSE pending
           \* lines 57-58, after the loop
           stopC == c # None /\ v1[c].recording
           finish(how, v, p) ==
               /\ tasks' = [tasks EXCEPT ![r].pc = how, ![r].wake = 0]
               /\ session' = [session EXCEPT !.task = None]   \* finally, line 60
               /\ vcs' = v
               /\ pending' = p
       IN  IF woke /\ c = None THEN finish("raised", vcs, pending)
           ELSE IF session.active                              \* line 49
           THEN IF c = None \/ ~CanStartRecording(v1, c)       \* line 52 raises
                THEN finish("raised", v1, p1)
                ELSE /\ vcs' = start_recording(v1, c, r)
                     /\ pending' = p1
                     /\ tasks' = [tasks EXCEPT ![r].pc = "sleep",
                                               ![r].wake = now + CHUNK_SEC]
                     /\ UNCHANGED session
           ELSE IF c = None THEN finish("raised", v1, p1)
           ELSE IF stopC
                THEN finish("done", stop_recording(v1, c), p1 \cup Stopped(v1, c))
                ELSE finish("done", v1, p1)
    /\ Quiet
    /\ UNCHANGED <<hs, now>>

\* on_chunk_end(sink, inter, fname), scheduled by the recording thread of a
\* stopped segment.  heard: sink.audio_data holds the audio of some user.  The
\* loop of lines 41-43 writes fname once per user, and not at all when nobody
\* was heard; the append of line 44 is outside the loop.
on_chunk_end(ch, heard) ==
    /\ ch \in pending
    /\ pending' = pending \ {ch}
    /\ wrote' = IF heard THEN {ch.fname} ELSE {}
    /\ session' = [session EXCEPT !.chunks = Append(@, ch)]
    /\ sent' = Msg("none")
    /\ run' = NoRun
    /\ UNCHANGED <<vcs, tasks, hs, now>>

\* ---- /record stop ------------------------------------------------------------
\* A stop that is accepted without clearing session.active.
StopAcceptedStillActive ==
    /\ session.task # None => Room
    /\ IF session.task = None
       THEN /\ Say("TypeError")
            /\ UNCHANGED hs
       ELSE /\ hs' = hs \cup {Handler("stop", "await_task", session.task, None, now)}
            /\ Quiet
    /\ UNCHANGED <<session, vcs, tasks, pending, now>>

\* lines 86-87: the stop is accepted; the handler awaits the recorder task, and
\* `await None` raises when the task handle was cleared.
StopAccepted ==
    /\ session.task # None => Room
    /\ session' = [session EXCEPT !.active = FALSE]
    /\ IF session.task = None
       THEN /\ Say("TypeError")
            /\ UNCHANGED hs
       ELSE /\ hs' = hs \cup {Handler("stop", "await_task", session.task, None, now)}
            /\ Quiet
    /\ UNCHANGED <<vcs, tasks, pending, now>>

\* A stop that resets the session before it finds that nothing is recording.
RecordStopResetting ==
    IF ~session.active
    THEN /\ session' = SessionInit
         /\ Say("NotRecording")
         /\ UNCHANGED <<vcs, tasks, pending, hs, now>>
    ELSE StopAccepted

RecordStop ==
    IF ~session.active
    THEN /\ Say("NotRecording")
         /\ UNCHANGED <<session, vcs, tasks, pending, hs, now>>
    ELSE StopAccepted

\* line 87 resumes: the awaited task ended, normally or with an exception.
StopResume(h) ==
    /\ h \in hs
    /\ h.cmd = "stop" /\ h.pc = "await_task"
    /\ tasks[h.task].pc \in {"done", "raised"}
    /\ IF tasks[h.task].pc = "raised"
       THEN /\ hs' = hs \ {h}
            /\ Say("TaskException")
       ELSE /\ hs' = (hs \ {h}) \cup {[h EXCEPT !.pc = "processing",
                                                  !.flushed = session.chunks]}
            /\ Say("Processing")
    /\ UNCHANGED <<session, vcs, tasks, pending, now>>

\* combine_audio returns its only file without running ffmpeg: the merge of one
\* chunk cannot fail.
MergeCanFail(chunks) == Len(chunks) # 1

\* lines 90-96: the pipeline runs without suspending; then the document is sent
\* and the send awaited.
StopPipeline(h, failing) ==
    /\ h \in hs
    /\ h.cmd = "stop" /\ h.pc = "processing"
    /\ "merge" \in failing => MergeCanFail(session.chunks)
    /\ LET ran  == RunStages(StopStages, failing)
           fail == FailedStage(StopStages, failing)
       IN  /\ run' = [kind |-> "stop", task |-> h.task,
                      input |-> session.chunks, flushed |-> h.flushed,
                      missing |-> {ch \in pending : ch.by = h.task},
                      failing |-> failing, stages |-> ran, failed |-> fail, delivered |-> (fail = "none"),
                      t0 |-> tasks[h.task].born, at |-> h.at]
           /\ IF fail # "none"
              THEN /\ hs' = hs \ {h}
                   /\ sent' = Msg("PipelineFailed")
              ELSE /\ hs' = (hs \ {h}) \cup {[h EXCEPT !.pc = "deliver", !.flushed = <<>>]}
                   /\ sent' = Msg("Document")
    /\ tasks' = [tasks EXCEPT ![h.task].runs = @ + 1]
    /\ wrote' = {}
    /\ UNCHANGED <<session, vcs, pending, now>>

\* line 96 resumes, then line 97.
StopDeliver(h, ok) ==
    /\ h \in hs
    /\ h.cmd = "stop" /\ h.pc = "deliver"
    /\ hs' = hs \ {h}
    /\ IF ok
       THEN /\ session' = SessionInit
            /\ Say("Reset")
       ELSE /\ Say("SendFailed")
            /\ UNCHANGED session
    /\ UNCHANGED <<vcs, tasks, pending, now>>

\* ---- a client going away ------------------------------------------------------
\* A client that is closed while recording: its recording thread either dies
\* with the socket (no callback, cb = FALSE) or notices the error, stops the
\* recording and schedules the callback (cb = TRUE).
Close(v, c, cb) ==
    [v EXCEPT ![c].st = "closed", ![c].seg = NoSeg,
              ![c].recording = (v[c].recording /\ ~cb)]

ClosePending(v, c, cb) ==
    IF v[c].recording /\ cb THEN pending \cup Stopped(v, c) ELSE pending

\* The transport drops the connection (connection lost mid-session).
ConnLost(c, cb) ==
    /\ c \in DOMAIN vcs
    /\ is_connected(vcs, c)
    /\ cb => vcs[c].recording
    /\ vcs' = Close(vcs, c, cb)
    /\ pending' = ClosePending(vcs, c, cb)
    /\ Quiet
    /\ UNCHANGED <<session, tasks, hs, now>>

\* ---- /leave -------------------------------------------------------------------
Leave ==
    IF session.vc # None /\ is_connected(vcs, session.vc)        \* line 102
    THEN /\ Room
         /\ hs' = hs \cup {Handler("leave", "disconnect", None, session.vc, 0)}
         /\ vcs' = [vcs EXCEPT ![session.vc].st = "closing"]
         /\ Quiet
         /\ UNCHANGED <<session, tasks, pending, now>>
    ELSE /\ session' = SessionInit                               \* line 104
         /\ Say("Left")
         /\ UNCHANGED <<vcs, tasks, pending, hs, now>>

\* line 103 resumes, then lines 104-105.
LeaveDone(h, cb) ==
    /\ h \in hs
    /\ h.cmd = "leave" /\ h.pc = "disconnect"
    /\ cb => vcs[h.vc].recording
    /\ hs' = hs \ {h}
    /\ vcs' = Close(vcs, h.vc, cb)
    /\ pending' = ClosePending(vcs, h.vc, cb)
    /\ session' = SessionInit
    /\ Say("Left")
    /\ UNCHANGED <<tasks, now>>

\* ---- /status ------------------------------------------------------------------
Status ==
    /\ sent' = <<"Status", IF session.active THEN "Recording" ELSE "Idle",
                 Len(session.chunks)>>
    /\ run' = NoRun
    /\ wrote' = {}
    /\ UNCHANGED <<session, vcs, tasks, pending, hs, now>>

\* ---- /process -----------------------------------------------------------------
\* fileOk: the named file exists in recordings/ and is a .wav file; failing: the
\* stages that fail if run; sendOk: the DM goes through.  The handler reads the
\* session at line 126 only, so its awaits are not modelled as suspensions.
ProcessRun(failing, sendOk) ==
    LET ran  == RunStages(ProcessStages, failing)
        fail == FailedStage(ProcessStages, failing)
    IN  /\ run' = [NoRun EXCEPT !.kind = "process", !.failing = failing, !.stages = ran,
                                !.failed = fail, !.delivered = (fail = "none")]
        /\ sent' = IF fail # "none" THEN Msg("PipelineFailed")
                   ELSE IF sendOk THEN Msg("Done") ELSE Msg("SendFailed")
        /\ wrote' = {}

Process(fileOk) ==
    /\ IF session.active
       THEN Say("CannotProcess")
       ELSE IF ~fileOk
       THEN Say("FileNotFound")
       ELSE \E failing \in FailSets, sendOk \in BOOLEAN :
               /\ "merge" \notin failing
               /\ sendOk \/ failing = {}
               /\ ProcessRun(failing, sendOk)
    /\ UNCHANGED <<session, vcs, tasks, pending, hs, now>>

\* ---- time ---------------------------------------------------------------------
Sleepers == {r \in DOMAIN tasks : tasks[r].pc = "sleep"}

\* The clock advances, never past a sleeping task's deadline, and not while a
\* task is ready to run.  Time is measured while a recorder sleeps only.
TickTo(end) ==
    /\ Sleepers # {}
    /\ \A r \in DOMAIN tasks : ~Runnable(r)
    /\ now + Step <= end
    /\ \A r \in Sleepers : now + Step <= tasks[r].wake
    /\ now' = now + Step
    /\ Quiet
    /\ UNCHANGED <<session, vcs, tasks, pending, hs>>

Tick == TickTo(EndOfTime)

\* ---- the system -------------------------------------------------------------
Next ==
    \/ \E inVoice \in BOOLEAN : RecordStart(inVoice)
    \/ \E h \in hs, ok \in BOOLEAN : ConnectDone(h, ok)
    \/ RecordStop
    \/ \E h \in hs : StopResume(h)
    \/ \E h \in hs, failing \in FailSets : StopPipeline(h, failing)
    \/ \E h \in hs, ok \in BOOLEAN : StopDeliver(h, ok)
    \/ Leave
    \/ \E h \in hs, cb \in BOOLEAN : LeaveDone(h, cb)
    \/ Status
    \/ \E fileOk \in BOOLEAN : Process(fileOk)
    \/ \E r \in 1 .. MaxTasks : recorder(r)
    \/ \E ch \in pending, heard \in BOOLEAN : on_chunk_end(ch, heard)
    \/ \E c \in 1 .. MaxConns, cb \in BOOLEAN : ConnLost(c, cb)
    \/ Tick

Spec == Init /\ [][Next]_vars

\* The same program when no stage, send or connection fails and nobody leaves.
CalmTick == TickTo(CalmEnd)

CalmNext ==
    \/ \E inVoice \in BOOLEAN : RecordStart(inVoice)
    \/ \E h \in hs : ConnectDone(h, TRUE)
    \/ RecordStop
    \/ \E h \in hs : StopResume(h)
    \/ \E h \in hs : StopPipeline(h, {})
    \/ \E h \in hs : StopDeliver(h, TRUE)
    \/ Status
    \/ \E r \in 1 .. MaxTasks : recorder(r)
    \/ \E ch \in pending, heard \in BOOLEAN : on_chunk_end(ch, heard)
    \/ CalmTick

CalmSpec == Init /\ [][CalmNext]_vars

\* ---- utils.py on its own ------------------------------------------------------
\* The lists of recorded files combine_audio may be given, and the two stages
\* applied to them.  Here session.chunks is the list of paths and run is the call
\* just made: its arguments, the outcomes the environment gave, its result.
RECURSIVE Lists(_)
Lists(n) ==
    IF n = 0 THEN {<<>>}
    ELSE Lists(n - 1) \cup {Append(l, p) : l \in {k \in Lists(n - 1) : Len(k) = n - 1}, p \in Recorded}

UtilInit ==
    /\ \E wav_files \in Lists(MaxList) : session = [SessionInit EXCEPT !.chunks = wav_files]
    /\ vcs = <<>>
    /\ tasks = <<>>
    /\ pending = {}
    /\ hs = {}
    /\ now = 0
    /\ sent = Msg("none")
    /\ run = NoRun
    /\ wrote = {}

\* merged = combine_audio(session.chunks).  ffmpeg cannot succeed on an empty list.
Merge(ffmpegOk) ==
    /\ run.kind = "none"
    /\ ffmpegOk => session.chunks # <<>>
    /\ LET res == combine_audio(session.chunks, Disk0, ffmpegOk)
       IN  /\ run' = [kind |-> "combine_audio", args |-> session.chunks,
                      env |-> <<ffmpegOk>>, res |-> res]
           /\ sent' = Msg(IF res.raised THEN "CalledProcessError" ELSE "merged")
    /\ wrote' = {}
    /\ UNCHANGED <<session, vcs, tasks, pending, hs, now>>

\* transcript = transcribe(merged)
Transcribe(apiOk, ffmpegOk, retryOk) ==
    /\ run.kind = "combine_audio"
    /\ ~run.res.raised
    /\ LET res == transcribe(run.res.ret, run.res.disk, apiOk, ffmpegOk, retryOk)
       IN  /\ run' = [kind |-> "transcribe", args |-> <<run.res.ret>>,
                      env |-> <<apiOk, ffmpegOk, retryOk>>, res |-> res]
           /\ sent' = Msg(IF res.raised THEN "Exception" ELSE "transcript")
    /\ wrote' = {}
    /\ UNCHANGED <<session, vcs, tasks, pending, hs, now>>

UtilNext ==
    \/ \E ffmpegOk \in BOOLEAN : Merge(ffmpegOk)
    \/ \E apiOk \in BOOLEAN, ffmpegOk \in BOOLEAN, retryOk \in BOOLEAN :
          Transcribe(apiOk, ffmpegOk, retryOk)

UtilSpec == UtilInit /\ [][UtilNext]_vars


\* ---- the claims ---------------------------------------------------------------
StopsInFlight == {h \in hs : h.cmd = "stop"}
Live          == {c \in DOMAIN vcs : is_connected(vcs, c)}
Times(chunks) == [i \in 1 .. Len(chunks) |-> <<chunks[i].fname, chunks[i].closed>>]

\* C1: when the pipeline of a stop starts, every segment of the recorder the stop
\* waited for has been appended to session.chunks: none of its chunk callbacks is
\* still to come.
C1_FlushedBeforePipeline == run.kind = "stop" => run.missing = {}

\* C2: a stop issued after the rotation loop ended early (the start of a segment
\* raised because the connection was lost, no leave being under way) while the
\* session is still recording goes on to the pipeline: it does not raise at the
\* await of the recorder.
C2_StopAfterEarlyExit ==
    ~(/\ sent = Msg("TypeError")
      /\ tasks # <<>> /\ tasks[Len(tasks)].pc = "raised"
      /\ session.vc # None /\ vcs[session.vc].st = "closed"
      /\ \A h \in hs : h.cmd # "leave")

\* C3: when leave has answered, the session is idle, session.chunks is empty and no
\* voice connection is live.
C3_LeaveReleasesAll ==
    sent = Msg("Left") => ~session.active /\ session.chunks = <<>> /\ Live = {}

\* C4: no start is accepted while the cycle of an accepted stop is not over
\* (the stop waits for the recorder, or its pipeline or its reset is to come).
C4_NoStartDuringStop == sent = Msg("Recording") => StopsInFlight = {}

\* C5: process runs its pipeline only when the session is neither recording nor
\* finalizing a stop.
C5_ProcessOnlyWhenIdle ==
    run.kind = "process" => ~session.active /\ StopsInFlight = {}

\* C6: a step that rejects a command for a precondition (stop while idle, start
\* while recording, start with the requester in no voice channel) changes no
\* session field, no connection, no task and no pending callback, suspends no
\* handler and runs no pipeline stage.
C6_RejectionChangesNothing ==
    [][sent'[1] \in {"NotRecording", "AlreadyRecording", "RuntimeError"}
          => /\ UNCHANGED <<session, vcs, tasks, pending, hs>>
             /\ run' = NoRun]_vars

C6_Witness == sent = Msg("AlreadyRecording") /\ session.chunks # <<>>

\* C7: when the pipeline of a stop has ended, by completing or by a stage
\* failing, the session has been reset: session.chunks is empty, so that the
\* next accepted start begins with an empty chunk list.  (Stated for the first
\* recording of a run, and for the part of the reset that no other request
\* made during the cycle can undo.)
C7_ResetAfterPipeline ==
    (/\ Len(tasks) = 1
     /\ sent = Msg("Reset") \/ (run.kind = "stop" /\ run.failed # "none"))
        => session.chunks = <<>>

\* C8: with no leave and nothing failing, an accepted stop goes on to invoke the
\* pipeline whatever requests arrive meanwhile: it never ends at the await of the
\* recorder instead.
C8_AcceptedStopReachesPipeline == sent[1] \notin {"TypeError", "TaskException"}

\* C9: a recording started at t0 and stopped at t0 + N * CHUNK_SEC + d, with
\* N >= 1 and 0 < d < CHUNK_SEC, hands the pipeline exactly N + 1 chunks, in
\* order: N full ones and a last one closed at the time of the stop.  (Stated for
\* the runs in which every chunk callback of the recording has been delivered.)
ExpectedChunks(t0, at) ==
    LET n == (at - t0) \div CHUNK_SEC
    IN  [i \in 1 .. n + 1 |->
            <<t0 + (i - 1) * CHUNK_SEC, IF i <= n THEN t0 + i * CHUNK_SEC ELSE at>>]

C9_ShortLastChunk ==
    (/\ run.kind = "stop"
     /\ run.missing = {}
     /\ run.at - run.t0 > CHUNK_SEC
     /\ (run.at - run.t0) % CHUNK_SEC # 0)
        => Times(run.input) = ExpectedChunks(run.t0, run.at)

\* C10: in a pipeline run, on the stop path and on the process path, a stage
\* that fails is the last stage that runs, and no document is sent.
C10_FailureAborts ==
    LET bad == {i \in 1 .. Len(run.stages) : run.stages[i] \in run.failing}
    IN  bad # {} => /\ bad = {Len(run.stages)}
                    /\ ~run.delivered
                    /\ sent = Msg("PipelineFailed")

C10_Witness ==
    run.kind = "stop" /\ run.failed = "transcribe" /\ run.input # <<>>

\* C11: at most one voice connection is live at any time.  A step taken while
\* a connection is live creates no client, and a start accepted in such a step
\* adopts the live connection; a step taken while a start is suspended
\* establishing its connection (an overlapping start among them) creates no
\* client either.
Connecting == {h \in hs : h.cmd = "start" /\ h.pc = "connect"}

StopsTakenUp == {h \in hs' \ hs : h.cmd = "stop" /\ h.pc = "await_task"}

Count(cmds, c) == Cardinality({i \in DOMAIN cmds : cmds[i] = c})

C13_TranscribeRetriesOnce ==
    run.kind = "transcribe" =>
        LET apiOk    == run.env[1]
            ffmpegOk == run.env[2]
            retryOk  == run.env[3]
            cmds     == run.res.cmds
        IN  /\ Count(cmds, "create") <= 2
            /\ Count(cmds, "ffmpeg") <= 1
            /\ apiOk => cmds = <<"create">> /\ ~run.res.raised
            /\ ~apiOk =>
                  /\ SubSeq(cmds, 1, 2) = <<"create", "ffmpeg">>
                  /\ Count(cmds, "create") = (IF ffmpegOk THEN 2 ELSE 1)
                  /\ Count(cmds, "ffmpeg") = 1
                  /\ run.res.raised <=> ~(ffmpegOk /\ retryOk)
                  /\ Last(cmds) = "unlink"

C13_Witness ==
    /\ run.kind = "transcribe"
    /\ run.env = <<FALSE, TRUE, FALSE>>
    /\ run.res.raised
    /\ run.args = <<TmpWav>>

\* C14: combine_audio given exactly one file returns that file, runs no
\* concatenation and leaves the disk as it was; given several files it returns
\* a file holding their audio in the order of the list, or, when the
\* concatenation fails, raises and returns nothing; in every case the files it
\* was given are as they were.
C14_CombineAudio ==
    run.kind = "combine_audio" =>
        LET wav_files == run.args
            res       == run.res
        IN  /\ Len(wav_files) = 1 =>
                  /\ ~res.raised
                  /\ res.ret = wav_files[1]
                  /\ res.cmds = <<>>
                  /\ res.disk = Disk0
            /\ Len(wav_files) > 1 /\ run.env[1] =>
                  /\ ~res.raised
                  /\ res.ret \in DOMAIN res.disk
                  /\ res.disk[res.ret] = [i \in 1 .. Len(wav_files) |-> Disk0[wav_files[i]][1]]
            /\ Len(wav_files) > 1 /\ ~run.env[1] =>
                  /\ res.raised
                  /\ res.ret = NoPath
                  /\ TmpWav \notin DOMAIN res.disk
            /\ \A p \in Recorded : p \in DOMAIN res.disk /\ res.disk[p] = Disk0[p]

C14_Witness ==
    /\ run.kind = "combine_audio"
    /\ Len(run.args) = MaxList
    /\ run.args[1] # run.args[2]
    /\ ~run.res.raised

\* C15: status does not answer Idle while a stop is being finalized, that is
\* while an accepted stop waits for the recorder or has its pipeline or its
\* reset to come.
C15_StatusNotIdleWhileFinalizing ==
    sent[1] = "Status" /\ sent[2] = "Idle" => StopsInFlight = {}

\* C16: in every state at most one recorder task is in its rotation loop,
\* asleep between the start and the stop of a segment.  (Stated for the states
\* in which no stop is in flight: two tasks alive after a start accepted during
\* a stop are the matter of C4.)
C16_OneRecorderAlive == StopsInFlight = {} => Cardinality(Sleepers) <= 1

\* C17: a step that appends a chunk to session.chunks has written the file the
\* chunk names.
Appended == {session'.chunks[i] : i \in Len(session.chunks) + 1 .. Len(session'.chunks)}

C17_WrittenBeforeAppended ==
    [][\A ch \in Appended : ch.fname \in wrote']_vars

\* C18: the pipeline of a stop is handed every chunk session.chunks held when
\* the stop came back from awaiting the recorder, in the same order: a leave
\* issued between that moment and the pipeline takes none of them away.
\* (Stated for the first recording of a run, so that no other stop and no
\* other start has touched the session, and for the pipelines that start when
\* no leave is under way.)
C18_PipelineKeepsFlushedChunks ==
    run.kind = "stop" /\ Len(tasks) = 1 /\ hs = StopsInFlight =>
        /\ Len(run.flushed) <= Len(run.input)
        /\ SubSeq(run.input, 1, Len(run.flushed)) = run.flushed

\* C19: a leave during a recording ends it for good.  While the recorder of the
\* first recording is still asleep and the session is as leave left it (not
\* active, no connection), session.chunks is empty; and once a second
\* recording is under way, no stop being in flight, no segment is open that
\* the first recorder started.
C19_NoChunkAfterLeave ==
    (/\ Len(tasks) = 1
     /\ tasks[1].pc = "sleep"
     /\ ~session.active
     /\ session.vc = None) => session.chunks = <<>>

C19_NoSegmentAfterLeave ==
    (/\ Len(tasks) = 2
     /\ session.active
     /\ session.task = 2
     /\ StopsInFlight = {}) => \A c \in DOMAIN vcs : vcs[c].seg.by # 1

C19_LeaveCancelsRecording == C19_NoChunkAfterLeave /\ C19_NoSegmentAfterLeave

\* C20: every chunk a stop hands to the pipeline comes from a segment that
\* began after the stop's matching start was accepted: none began in an earlier
\* recording period.  (Stated for the pipelines that start when no stop of
\* another recording is in flight.)
C20_OnlyOwnChunks ==
    run.kind = "stop" /\ (\A g \in StopsInFlight : g.task = run.task) =>
        \A i \in 1 .. Len(run.input) : run.input[i].period >= run.task

====
